---- MODULE Spec2Model ----
(***************************************************************************)
(* PDF Chapter Splitter (src/main.py): the title sanitizer, the bookmark   *)
(* walker, the inference of the default page ranges and the splitter.      *)
(*                                                                         *)
(* Strings are sequences of one-character strings; a character that a TLA+ *)
(* string cannot hold is written as the name of its code point ("U+000B"). *)
(* A page of the source document is identified by its 1-based page number; *)
(* pdf_reader.pages is addressed by the 0-based index, as in pypdf.        *)
(***************************************************************************)
EXTENDS Integers, Sequences, FiniteSets, TLC

VARIABLES
    pc,                   \* position of the running function
    name_arg,             \* sanitize_filename: the string the caller passed
    name,                 \* sanitize_filename: its parameter, reassigned line by line
    total_pages,          \* len(pdf_reader.pages)
    outline_ok,           \* whether reading pdf_reader.outline succeeds
    outline,              \* pdf_reader.outline: the top-level items, in document order
    idx,                  \* extract_potential_chapters: position in the outline
    chapters,             \* extract_potential_chapters: the list being built
    potential_chapters,   \* what extract_potential_chapters returned
    uploaded_name,        \* uploaded_file.name
    pdf_name,             \* st.session_state.pdf_name; <<>> while the session has none
    chapter_data,         \* st.session_state.chapter_data; <<>> while the session has none
    uploads,              \* how many documents have been uploaded in the session
    initial_data,         \* the local list initial_data; <<>> in a run that builds none
    chapter_definitions,  \* the rows handed to split_pdf
    i,                    \* split_pdf: 0-based position in chapter_definitions
    output_files,         \* split_pdf: the documents written, in the order written
    log                   \* the st.warning / st.error / st.info / st.success calls

vars == <<pc, name_arg, name, total_pages, outline_ok, outline, idx, chapters,
          potential_chapters, uploaded_name, pdf_name, chapter_data, uploads,
          initial_data, chapter_definitions, i, output_files, log>>

\* st.session_state and the uploader
sessionVars == <<uploaded_name, pdf_name, chapter_data, uploads>>

----------------------------------------------------------------------------
(* Bounds of the model *)

\* longest free prefix of a name given to sanitize_filename
MaxLen == 2
\* largest page count of a source document
MaxPages == 3
\* longest outline
MaxOutline == 3
\* longest list of freely chosen chapter definitions
MaxDefs == 2
\* documents uploaded one after the other in one session
MaxUploads == 2
\* longest outline of a document of a session with several uploads
MaxSessionOutline == 2

----------------------------------------------------------------------------
(* Helpers on sequences *)

Min(a, b) == IF a < b THEN a ELSE b

\* n copies of c
Repeat(c, n) == [k \in 1..n |-> c]

\* sequences over S of length at most n
SeqsUpTo(S, n) == UNION {[1..k -> S] : k \in 0..n}

----------------------------------------------------------------------------
(* sanitize_filename, src/main.py:11-17 *)

\* the character class of re.sub(r'[\\/*?:"<>|]', "", name)
InvalidChars == {"\\", "/", "*", "?", ":", "\"", "<", ">", "|"}

\* name[:100]
MaxFilenameLen == 100

IsValidChar(c) == c \notin InvalidChars

\* a character class that forgets the backslash
RemoveInvalidNoBackslash(s) == SelectSeq(s, LAMBDA c : c \notin (InvalidChars \ {"\\"}))

\* re.sub(r'[\\/*?:"<>|]', "", name): every match is deleted, nothing substituted
RemoveInvalid(s) == SelectSeq(s, IsValidChar)

\* name.replace(" ", "_")
ReplaceSpaces(s) == [k \in 1..Len(s) |-> IF s[k] = " " THEN "_" ELSE s[k]]

\* name[:100]
Truncate(s) == SubSeq(s, 1, Min(Len(s), MaxFilenameLen))

sanitize_filename(s) == Truncate(ReplaceSpaces(RemoveInvalid(s)))

\* The characters names are drawn from: the nine removed ones, the space, and
\* characters the function leaves alone (a tab is whitespace but not a space).
Alphabet == InvalidChars \cup {" ", "_", "a", "\t"}

\* Inputs of sanitize_filename: a free prefix followed by a run of one character,
\* the run long enough to reach and pass the truncation length.
PadLens == {0, MaxFilenameLen - MaxLen, MaxFilenameLen - 1, MaxFilenameLen, MaxFilenameLen + 1}
PadChars == {"a", " ", "/"}
SanitizeInputs ==
    {p \o Repeat(c, n) : p \in SeqsUpTo(Alphabet, MaxLen), c \in PadChars, n \in PadLens}

----------------------------------------------------------------------------
(* Text helpers *)

DigitChars == <<"0", "1", "2", "3", "4", "5", "6", "7", "8", "9">>

RECURSIVE Decimal(_)
\* str(n) for n >= 0
Decimal(n) ==
    IF n < 10 THEN <<DigitChars[n + 1]>>
    ELSE Decimal(n \div 10) \o <<DigitChars[(n % 10) + 1]>>

\* f"{n:02d}" for n >= 0: at least two digits, zero padded, never cut
ZeroPad2(n) == IF n < 10 THEN <<"0">> \o Decimal(n) ELSE Decimal(n)

\* characters str.strip() removes from both ends: the characters c with
\* c.isspace().  \t \n \f \r and the space are written as they are, the
\* others by code point: \v, the separators \x1c-\x1f, NEL, the no-break
\* space and the Unicode spaces.
Whitespace ==
    {" ", "\t", "\n", "\f", "\r",
     "U+000B", "U+001C", "U+001D", "U+001E", "U+001F", "U+0085", "U+00A0",
     "U+1680", "U+2000", "U+2001", "U+2002", "U+2003", "U+2004", "U+2005",
     "U+2006", "U+2007", "U+2008", "U+2009", "U+200A", "U+2028", "U+2029",
     "U+202F", "U+205F", "U+3000"}

RECURSIVE LStrip(_)
LStrip(s) == IF s # <<>> /\ Head(s) \in Whitespace THEN LStrip(Tail(s)) ELSE s

RECURSIVE RStrip(_)
RStrip(s) ==
    IF s # <<>> /\ s[Len(s)] \in Whitespace THEN RStrip(SubSeq(s, 1, Len(s) - 1)) ELSE s

\* str.strip()
Strip(s) == RStrip(LStrip(s))

----------------------------------------------------------------------------
(* The outline of a document, as pypdf hands it to extract_potential_chapters *)

\* /Title of a Destination: a TextStringObject, an IndirectObject (which
\* get_object resolves to a text string, to something else, or fails on), or
\* no text at all (None).
TextTitle(t) == [kind |-> "text", text |-> t, idnum |-> 0, target |-> "text"]
IndirectTitle(n, tgt, t) == [kind |-> "indirect", text |-> t, idnum |-> n, target |-> tgt]
NoTitle == [kind |-> "none", text |-> <<>>, idnum |-> 0, target |-> "text"]

\* what get_page_number(item.page) does: a 0-based index, None, or an exception
PageAt(k) == [res |-> "page", index |-> k]
PageNotFound == [res |-> "none", index |-> 0]
PageRaises == [res |-> "raise", index |-> 0]

\* an outline item: a Destination, a list (nested bookmarks) or anything else
Destination(t, p) == [type |-> "Destination", title |-> t, page |-> p, items |-> <<>>]
NestedList(its) == [type |-> "list", title |-> NoTitle, page |-> PageNotFound, items |-> its]
OtherItem == [type |-> "other", title |-> NoTitle, page |-> PageNotFound, items |-> <<>>]

----------------------------------------------------------------------------
(* extract_potential_chapters, src/main.py:20-92 *)

UnknownTitleObj == <<"U", "n", "k", "n", "o", "w", "n", " ", "T", "i", "t", "l", "e", " ", "(", "O", "b", "j", " ">>
UnknownTitleType == <<"U", "n", "k", "n", "o", "w", "n", " ", "T", "i", "t", "l", "e", " ", "(", "T", "y", "p", "e", " ">>
UnknownNestedTitleObj == <<"U", "n", "k", "n", "o", "w", "n", " ", "N", "e", "s", "t", "e", "d", " ", "T", "i", "t", "l", "e", " ", "(", "O", "b", "j", " ">>
UnknownNestedTitleType == <<"U", "n", "k", "n", "o", "w", "n", " ", "N", "e", "s", "t", "e", "d", " ", "T", "i", "t", "l", "e", " ", "(", "T", "y", "p", "e", " ">>
\* str(type(None))
NoneTypeName == <<"<", "c", "l", "a", "s", "s", " ", "'", "N", "o", "n", "e", "T", "y", "p", "e", "'", ">">>
NestedSuffix == <<" ", "(", "N", "e", "s", "t", "e", "d", ")">>

\* lines 36-45 (nested: 63-72): the title of a bookmark, or an exception
ResolveTitle(t, nested) ==
    IF t.kind = "indirect" THEN
        IF t.target = "raise" THEN [raised |-> TRUE, title |-> <<>>]
        ELSE IF t.target = "text" THEN [raised |-> FALSE, title |-> Strip(t.text)]
        ELSE [raised |-> FALSE,
              title |-> (IF nested THEN UnknownNestedTitleObj ELSE UnknownTitleObj)
                        \o Decimal(t.idnum) \o <<")">>]
    ELSE IF t.kind = "text" THEN [raised |-> FALSE, title |-> Strip(t.text)]
    ELSE [raised |-> FALSE,
          title |-> (IF nested THEN UnknownNestedTitleType ELSE UnknownTitleType)
                    \o NoneTypeName \o <<")">>]

\* line 50 / 76: page_num_0based + 1
ToOneBased(index) == index + 1

\* lines 33-52 (nested: 61-78): what one Destination contributes.
\* "append": a (title, page) pair; "drop": nothing, silently (get_page_number
\* returned None); "warn": an exception, caught and reported by st.warning.
ProcessDestination(item, nested) ==
    LET rt == ResolveTitle(item.title, nested) IN
    IF rt.raised \/ item.page.res = "raise" THEN [outcome |-> "warn", entry |-> <<>>]
    ELSE IF item.page.res = "none" THEN [outcome |-> "drop", entry |-> <<>>]
    ELSE [outcome |-> "append",
          entry |-> <<IF nested THEN rt.title \o NestedSuffix ELSE rt.title,
                      ToOneBased(item.page.index)>>]

RECURSIVE InsertByPage(_, _)
\* e goes after every entry whose page is not larger: the sort is stable
InsertByPage(e, s) ==
    IF s = <<>> THEN <<e>>
    ELSE IF e[2] < Head(s)[2] THEN <<e>> \o s
    ELSE <<Head(s)>> \o InsertByPage(e, Tail(s))

RECURSIVE SortedByPage(_)
SortedByPage(s) ==
    IF s = <<>> THEN <<>>
    ELSE InsertByPage(s[Len(s)], SortedByPage(SubSeq(s, 1, Len(s) - 1)))

\* the list returned as collected
SortSkipped(s) == s

\* line 84: chapters.sort(key=lambda x: x[1])
SortChapters(s) == SortedByPage(s)

Logged(level, msg, at) == [level |-> level, msg |-> msg, at |-> at]

\* lines 31-52: a top-level Destination
WalkDestination ==
    /\ pc = "walk" /\ outline_ok /\ idx <= Len(outline)
    /\ outline[idx].type = "Destination"
    /\ LET r == ProcessDestination(outline[idx], FALSE) IN
         /\ chapters' = IF r.outcome = "append" THEN Append(chapters, r.entry) ELSE chapters
         /\ log' = IF r.outcome = "warn"
                   THEN Append(log, Logged("warning", "bookmark", idx)) ELSE log
    /\ idx' = idx + 1
    /\ UNCHANGED sessionVars
    /\ UNCHANGED <<pc, name_arg, name, total_pages, outline_ok, outline, potential_chapters,
                   initial_data, chapter_definitions, i, output_files>>

\* lines 56-78: a list; only its first item is looked at, and only a Destination
WalkList ==
    /\ pc = "walk" /\ outline_ok /\ idx <= Len(outline)
    /\ outline[idx].type = "list"
    /\ LET its == outline[idx].items
           considered == its # <<>> /\ its[1].type = "Destination"
           r == IF considered THEN ProcessDestination(its[1], TRUE)
                ELSE [outcome |-> "drop", entry |-> <<>>]
       IN
         /\ chapters' = IF r.outcome = "append" THEN Append(chapters, r.entry) ELSE chapters
         /\ log' = IF r.outcome = "warn"
                   THEN Append(log, Logged("warning", "nested bookmark", idx)) ELSE log
    /\ idx' = idx + 1
    /\ UNCHANGED sessionVars
    /\ UNCHANGED <<pc, name_arg, name, total_pages, outline_ok, outline, potential_chapters,
                   initial_data, chapter_definitions, i, output_files>>

\* lines 31, 56: an item that is neither a Destination nor a list is passed over
WalkOther ==
    /\ pc = "walk" /\ outline_ok /\ idx <= Len(outline)
    /\ outline[idx].type = "other"
    /\ idx' = idx + 1
    /\ UNCHANGED sessionVars
    /\ UNCHANGED <<pc, name_arg, name, total_pages, outline_ok, outline, chapters,
                   potential_chapters, initial_data, chapter_definitions, i, output_files, log>>

\* lines 81-88: the end of the loop
WalkReturn ==
    /\ pc = "walk" /\ outline_ok /\ idx > Len(outline)
    /\ IF chapters # <<>>
       THEN /\ log' = Append(log, Logged("success", "bookmarks", 0))
            /\ chapters' = SortChapters(chapters)
            /\ potential_chapters' = chapters'
       ELSE /\ log' = Append(log, Logged("info", "no bookmarks", 0))
            /\ chapters' = chapters
            /\ potential_chapters' = <<>>
    /\ pc' = "walked"
    /\ UNCHANGED sessionVars
    /\ UNCHANGED <<name_arg, name, total_pages, outline_ok, outline, idx,
                   initial_data, chapter_definitions, i, output_files>>

\* lines 29, 90-92: reading pdf_reader.outline raises
WalkOutlineError ==
    /\ pc = "walk" /\ ~outline_ok
    /\ log' = Append(log, Logged("error", "outline", 0))
    /\ potential_chapters' = <<>>
    /\ pc' = "walked"
    /\ UNCHANGED sessionVars
    /\ UNCHANGED <<name_arg, name, total_pages, outline_ok, outline, idx, chapters,
                   initial_data, chapter_definitions, i, output_files>>

----------------------------------------------------------------------------
(* The pre-populated chapter table, src/main.py:163-188 *)

\* a cell of the table: an int, or a value that is no int (None)
IntCell(n) == [int |-> TRUE, v |-> n]
NoneCell == [int |-> FALSE, v |-> 0]

\* a row: the dict {'Chapter Name': ..., 'Start Page': ..., 'End Page': ...};
\* has_name is FALSE when the dict has no 'Chapter Name' key
Row(nm, s, e) == [has_name |-> TRUE, Chapter_Name |-> nm, Start_Page |-> s, End_Page |-> e]
RowWithoutName(s, e) == [has_name |-> FALSE, Chapter_Name |-> <<>>, Start_Page |-> s, End_Page |-> e]

DefaultChapterName == <<"C", "h", "a", "p", "t", "e", "r", " ", "1">>

\* the guess kept as computed
ClampEndSkipped(end_page, start_page) == end_page

\* lines 173-174: if end_page < start_page: end_page = start_page
ClampEnd(end_page, start_page) == IF end_page < start_page THEN start_page ELSE end_page

\* the next chapter's first page taken for this chapter's last
GuessEndInclusive(pcs, k, total) == IF k < Len(pcs) THEN pcs[k + 1][2] ELSE total

\* lines 169-171: the next chapter's start page minus one, total_pages for the
\* last chapter (k is the 1-based position, the code's i + 1)
GuessEnd(pcs, k, total) == IF k < Len(pcs) THEN pcs[k + 1][2] - 1 ELSE total

\* lines 165-187
InitialData(pcs, total) ==
    IF pcs # <<>>
    THEN [k \in 1..Len(pcs) |->
            Row(pcs[k][1], IntCell(pcs[k][2]),
                IntCell(ClampEnd(GuessEnd(pcs, k, total), pcs[k][2])))]
    ELSE <<Row(DefaultChapterName, IntCell(1), IntCell(total))>>

\* line 163: 'chapter_data' not in st.session_state
\*           or st.session_state.get('pdf_name') != uploaded_file.name
\* (a table in the session always has a row, so <<>> stands for "not in")
MustBuild == chapter_data = <<>> \/ pdf_name # uploaded_name

\* lines 163-188: the table is built from what the walker returned and put
\* in the session, together with the file's name, only when the session has
\* no table or its table was built for a file of another name; otherwise
\* the session's table stays and no initial_data is built in this run
BuildInitialData ==
    /\ pc = "walked"
    /\ IF MustBuild
       THEN /\ pdf_name' = uploaded_name
            /\ initial_data' = InitialData(potential_chapters, total_pages)
            /\ chapter_data' = initial_data'
       ELSE /\ pdf_name' = pdf_name
            /\ initial_data' = <<>>
            /\ chapter_data' = chapter_data
    /\ pc' = "table"
    /\ UNCHANGED <<name_arg, name, total_pages, outline_ok, outline, idx, chapters,
                   potential_chapters, uploaded_name, uploads, chapter_definitions,
                   i, output_files, log>>

\* lines 191-218: the editor shows st.session_state.chapter_data, the button
\* is pressed with the table as shown (no edit), and split_pdf starts on its
\* records; line 208 lets no empty list through
ClickSplit ==
    /\ pc = "table"
    /\ chapter_data # <<>>
    /\ chapter_definitions' = chapter_data
    /\ i' = 0
    /\ output_files' = <<>>
    /\ pc' = "split"
    /\ UNCHANGED sessionVars
    /\ UNCHANGED <<name_arg, name, total_pages, outline_ok, outline, idx, chapters,
                   potential_chapters, initial_data, log>>

----------------------------------------------------------------------------
(* split_pdf, src/main.py:95-136 *)

ChapterUnderscore == <<"C", "h", "a", "p", "t", "e", "r", "_">>
PdfSuffix == <<".", "p", "d", "f">>

\* line 105: chapter.get('Chapter Name', f'Chapter_{i+1}')
ChapterName(row, n) ==
    IF row.has_name THEN row.Chapter_Name ELSE ChapterUnderscore \o Decimal(n + 1)

\* line 110: isinstance(start_page, int) and isinstance(end_page, int)
BothInt(row) == row.Start_Page.int /\ row.End_Page.int

\* a range check that forgets the end page
InRangeStartOnly(s, e, total) == 1 <= s /\ s <= total

\* line 113: 1 <= start_page <= total_pages and 1 <= end_page <= total_pages
InRange(s, e, total) == 1 <= s /\ s <= total /\ 1 <= e /\ e <= total

\* line 116: start_page > end_page
StartAfterEnd(s, e) == s > e

\* the index cut to two digits
OutputFilenameTwoDigits(n, nm) ==
    ZeroPad2((n + 1) % 100) \o <<"_">> \o sanitize_filename(nm) \o PdfSuffix

\* line 121: f"{i+1:02d}_{sanitized_name}.pdf" (inside output_dir, the same
\* directory for every chapter)
OutputFilename(n, nm) == ZeroPad2(n + 1) \o <<"_">> \o sanitize_filename(nm) \o PdfSuffix

\* line 127: pdf_reader.pages[page_num], the page with the 1-based number page_num + 1
SourcePage(page_num) == page_num + 1

\* the 1-based start taken as a 0-based index
PageNumsFromStart(s, e) == [k \in 1..(e - s) |-> s + k - 1]

\* line 126: range(start_page - 1, end_page), in order
PageNums(s, e) == [k \in 1..(e - (s - 1)) |-> (s - 1) + (k - 1)]

\* lines 124-127: the pages added to the writer, in order
CopiedPages(s, e) == [k \in 1..Len(PageNums(s, e)) |-> SourcePage(PageNums(s, e)[k])]

\* lines 110-118: why a row is skipped ("none": it is not)
SkipReason(row, total) ==
    IF ~BothInt(row) THEN "not integers"
    ELSE IF ~InRange(row.Start_Page.v, row.End_Page.v, total) THEN "out of range"
    ELSE IF StartAfterEnd(row.Start_Page.v, row.End_Page.v) THEN "start after end"
    ELSE "none"

\* a skipped chapter ends the loop
AfterSkipStop(n) == Len(chapter_definitions)

\* lines 112, 115, 118: continue
AfterSkip(n) == n + 1

\* lines 133-134: the exception is caught and the loop goes on
AfterFailure(n) == n + 1

\* lines 104-134: one turn of the loop, for the definition at position i.
\* Copying a page or writing the file may raise (raised); the exception is
\* caught and reported, and the path is not appended.  The field at of an
\* output file records the position of the definition it was written for.
SplitChapter ==
    /\ pc = "split" /\ i < Len(chapter_definitions)
    /\ LET row == chapter_definitions[i + 1]
           reason == SkipReason(row, total_pages)
       IN
         IF reason # "none"
         THEN /\ log' = Append(log, Logged("warning", reason, i))
              /\ output_files' = output_files
              /\ i' = AfterSkip(i)
         ELSE \E raised \in BOOLEAN :
                IF raised
                THEN /\ log' = Append(log, Logged("error", "failed to create", i))
                     /\ output_files' = output_files
                     /\ i' = AfterFailure(i)
                ELSE /\ log' = log
                     /\ output_files' = Append(output_files,
                            [filename |-> OutputFilename(i, ChapterName(row, i)),
                             pages |-> CopiedPages(row.Start_Page.v, row.End_Page.v),
                             at |-> i])
                     /\ i' = i + 1
    /\ UNCHANGED sessionVars
    /\ UNCHANGED <<pc, name_arg, name, total_pages, outline_ok, outline, idx, chapters,
                   potential_chapters, initial_data, chapter_definitions>>

\* line 136: return output_files
SplitReturn ==
    /\ pc = "split" /\ i >= Len(chapter_definitions)
    /\ pc' = "done"
    /\ UNCHANGED sessionVars
    /\ UNCHANGED <<name_arg, name, total_pages, outline_ok, outline, idx, chapters,
                   potential_chapters, initial_data, chapter_definitions, i,
                   output_files, log>>

----------------------------------------------------------------------------
(* sanitize_filename run line by line *)

\* line 13
SanitizeSub ==
    /\ pc = "sanitize:13"
    /\ name' = RemoveInvalid(name)
    /\ pc' = "sanitize:15"
    /\ UNCHANGED sessionVars
    /\ UNCHANGED <<name_arg, total_pages, outline_ok, outline, idx, chapters,
                   potential_chapters, initial_data, chapter_definitions, i,
                   output_files, log>>

\* line 15
SanitizeReplace ==
    /\ pc = "sanitize:15"
    /\ name' = ReplaceSpaces(name)
    /\ pc' = "sanitize:17"
    /\ UNCHANGED sessionVars
    /\ UNCHANGED <<name_arg, total_pages, outline_ok, outline, idx, chapters,
                   potential_chapters, initial_data, chapter_definitions, i,
                   output_files, log>>

\* line 17
SanitizeReturn ==
    /\ pc = "sanitize:17"
    /\ name' = Truncate(name)
    /\ pc' = "sanitize:done"
    /\ UNCHANGED sessionVars
    /\ UNCHANGED <<name_arg, total_pages, outline_ok, outline, idx, chapters,
                   potential_chapters, initial_data, chapter_definitions, i,
                   output_files, log>>

----------------------------------------------------------------------------
(* Specifications *)

\* names of uploaded files
FileX == <<"x", ".", "p", "d", "f">>
FileY == <<"y", ".", "p", "d", "f">>
FileNames == {FileX, FileY}

\* ---- the application on the first document uploaded in a session, the
\* ---- table left unedited

NameA == <<" ", "a", "\r", "\n">>
NameB == <<"U+00A0", "\f", "b", ":", "U+000B">>
NameC == <<"c">>

\* what get_page_number can answer in a document of n pages
PageRefs(n) == {PageAt(k) : k \in 0..(n - 1)} \cup {PageNotFound, PageRaises}

\* the first and the last page of a document of n pages, when it has any
FirstPageRef(n) == IF n >= 1 THEN {PageAt(0)} ELSE {}
LastPageRef(n) == IF n >= 1 THEN {PageAt(n - 1)} ELSE {}

\* top-level bookmarks: a text title with every answer of the page lookup,
\* and each other kind of title with one
Destinations(n) ==
    {Destination(TextTitle(NameA), p) : p \in PageRefs(n)}
    \cup {Destination(IndirectTitle(7, "raise", <<>>), p) : p \in FirstPageRef(n)}
    \cup {Destination(IndirectTitle(12, "text", NameB), p) : p \in FirstPageRef(n)}
    \cup {Destination(NoTitle, p) : p \in LastPageRef(n)}

\* nested bookmarks: no item, a first item that is no bookmark, a first
\* bookmark whose page lookup raises, and a first bookmark on the first or
\* the last page followed by a sibling
NestedLists(n) ==
    {NestedList(<<>>), NestedList(<<OtherItem>>),
     NestedList(<<Destination(IndirectTitle(7, "other", <<>>), PageRaises)>>)}
    \cup {NestedList(<<Destination(TextTitle(NameC), p),
                       Destination(TextTitle(NameA), PageAt(0))>>) : p \in FirstPageRef(n)}
    \cup {NestedList(<<Destination(IndirectTitle(7, "other", <<>>), p),
                       Destination(TextTitle(NameA), PageAt(0))>>) : p \in LastPageRef(n)}

Items(n) == Destinations(n) \cup NestedLists(n) \cup {OtherItem}

Init ==
    /\ uploaded_name = FileX
    /\ pdf_name = <<>>
    /\ chapter_data = <<>>
    /\ uploads = 1
    /\ pc = "walk"
    /\ total_pages \in 0..MaxPages
    /\ outline_ok \in BOOLEAN
    /\ outline \in (IF outline_ok THEN SeqsUpTo(Items(total_pages), MaxOutline) ELSE {<<>>})
    /\ idx = 1
    /\ chapters = <<>>
    /\ potential_chapters = <<>>
    /\ initial_data = <<>>
    /\ chapter_definitions = <<>>
    /\ i = 0
    /\ output_files = <<>>
    /\ log = <<>>
    /\ name_arg = <<>>
    /\ name = <<>>

Next ==
    \/ WalkDestination
    \/ WalkList
    \/ WalkOther
    \/ WalkReturn
    \/ WalkOutlineError
    \/ BuildInitialData
    \/ ClickSplit
    \/ SplitChapter
    \/ SplitReturn

Spec == Init /\ [][Next]_vars

\* ---- a session in which documents are uploaded one after the other ----

\* the outline items of these documents: a bookmark on each page, a list
\* without items and an item that is neither
SessionItems(n) ==
    {Destination(TextTitle(NameC), PageAt(k)) : k \in 0..(n - 1)}
    \cup {NestedList(<<>>), OtherItem}

SessionOutlines(n, ok) ==
    IF ok THEN SeqsUpTo(SessionItems(n), MaxSessionOutline) ELSE {<<>>}

\* lines 147-156: another file is chosen in the uploader; the script runs
\* again from the top on the new document, with the session as it was left
Upload ==
    /\ pc \in {"table", "done"}
    /\ uploads < MaxUploads
    /\ uploads' = uploads + 1
    /\ uploaded_name' \in FileNames
    /\ total_pages' \in 0..MaxPages
    /\ outline_ok' \in BOOLEAN
    /\ outline' \in SessionOutlines(total_pages', outline_ok')
    /\ idx' = 1
    /\ chapters' = <<>>
    /\ potential_chapters' = <<>>
    /\ initial_data' = <<>>
    /\ chapter_definitions' = <<>>
    /\ i' = 0
    /\ output_files' = <<>>
    /\ log' = <<>>
    /\ pc' = "walk"
    /\ UNCHANGED <<name_arg, name, pdf_name, chapter_data>>

InitSession ==
    /\ pc = "walk"
    /\ uploaded_name \in FileNames
    /\ pdf_name = <<>>
    /\ chapter_data = <<>>
    /\ uploads = 1
    /\ total_pages \in 0..MaxPages
    /\ outline_ok \in BOOLEAN
    /\ outline \in SessionOutlines(total_pages, outline_ok)
    /\ idx = 1
    /\ chapters = <<>>
    /\ potential_chapters = <<>>
    /\ initial_data = <<>>
    /\ chapter_definitions = <<>>
    /\ i = 0
    /\ output_files = <<>>
    /\ log = <<>>
    /\ name_arg = <<>>
    /\ name = <<>>

NextSession ==
    \/ WalkDestination
    \/ WalkList
    \/ WalkOther
    \/ WalkReturn
    \/ WalkOutlineError
    \/ BuildInitialData
    \/ ClickSplit
    \/ SplitChapter
    \/ SplitReturn
    \/ Upload

SpecSession == InitSession /\ [][NextSession]_vars

\* ---- split_pdf on any list of chapter definitions ----

Cells(n) == {NoneCell} \cup {IntCell(v) : v \in 0..(n + 1)}

\* rows that differ in their pages
PageRows(n) == {Row(NameC, s, e) : s \in Cells(n), e \in Cells(n)}

\* rows that differ in their names, all on page 1 of a one-page document
SplitNames == {NameC, <<"a", " ", "b">>, <<"a", "_", "b">>, <<>>, <<"/">>,
               <<"0", "_", "c">>, <<"1", "_", "c">>}
NameRows ==
    {Row(nm, IntCell(1), IntCell(1)) : nm \in SplitNames}
    \cup {RowWithoutName(IntCell(1), IntCell(1))}

\* a rejected row, to put a named row at a far position
FillRow == Row(NameC, NoneCell, NoneCell)
FillLens == {0, 8, 89, 99}
LeadLens == {0, 9}
LongLists ==
    {Repeat(FillRow, lead) \o <<r1>> \o Repeat(FillRow, fill) \o <<r2>> :
        lead \in LeadLens, fill \in FillLens, r1 \in NameRows, r2 \in NameRows}

InitSplit ==
    /\ uploaded_name = FileX
    /\ pdf_name = <<>>
    /\ chapter_data = <<>>
    /\ uploads = 1
    /\ pc = "split"
    /\ total_pages \in 0..MaxPages
    /\ chapter_definitions \in
         (SeqsUpTo(PageRows(total_pages), MaxDefs)
            \cup (IF total_pages = 1 THEN LongLists ELSE {}))
    /\ i = 0
    /\ output_files = <<>>
    /\ log = <<>>
    /\ outline_ok = TRUE
    /\ outline = <<>>
    /\ idx = 1
    /\ chapters = <<>>
    /\ potential_chapters = <<>>
    /\ initial_data = <<>>
    /\ name_arg = <<>>
    /\ name = <<>>

NextSplit ==
    \/ SplitChapter
    \/ SplitReturn

SpecSplit == InitSplit /\ [][NextSplit]_vars

\* ---- sanitize_filename on any name ----

InitSanitize ==
    /\ uploaded_name = FileX
    /\ pdf_name = <<>>
    /\ chapter_data = <<>>
    /\ uploads = 1
    /\ pc = "sanitize:13"
    /\ name_arg \in SanitizeInputs
    /\ name = name_arg
    /\ total_pages = 0
    /\ outline_ok = TRUE
    /\ outline = <<>>
    /\ idx = 1
    /\ chapters = <<>>
    /\ potential_chapters = <<>>
    /\ initial_data = <<>>
    /\ chapter_definitions = <<>>
    /\ i = 0
    /\ output_files = <<>>
    /\ log = <<>>

NextSanitize ==
    \/ SanitizeSub
    \/ SanitizeReplace
    \/ SanitizeReturn

SpecSanitize == InitSanitize /\ [][NextSanitize]_vars

----------------------------------------------------------------------------
(* Properties of sanitize_filename (checked under SpecSanitize) *)

\* the characters the specification lists, and the space
ListedChars == {"\\", "/", "*", "?", ":", "\"", "<", ">", "|"}

HasNoneOf(s, chars) == \A k \in 1..Len(s) : s[k] \notin chars

\* C5: whatever string is passed, the string sanitize_filename returns holds
\* none of \ / * ? : " < > | and no space and is at most 100 characters
\* long; when the string passed already holds none of these characters, the
\* result is its first 100 characters.
C5_SanitizeOutput ==
    pc = "sanitize:done" =>
        /\ HasNoneOf(name, ListedChars \cup {" "})
        /\ Len(name) <= 100
        /\ (HasNoneOf(name_arg, ListedChars \cup {" "}) =>
                name = SubSeq(name_arg, 1, IF Len(name_arg) < 100 THEN Len(name_arg) ELSE 100))

\* a name of more than 100 characters with a backslash and a space in it has
\* been sanitized, and a clean name of more than 100 characters exists too
C5_Witness ==
    /\ pc = "sanitize:done"
    /\ Len(name_arg) > 100
    /\ \E j, k \in 1..Len(name_arg) : name_arg[j] = "\\" /\ name_arg[k] = " "
    /\ Len(name) = 100

----------------------------------------------------------------------------
(* Properties of the bookmark walker (checked under Spec) *)

\* the bookmark the walker looks at for the item at position k of the
\* outline: the item itself, or the first item of a list; OtherItem when
\* there is none
NodeAt(k) ==
    LET it == outline[k] IN
    IF it.type = "Destination" THEN it
    ELSE IF it.type = "list" /\ it.items # <<>> /\ it.items[1].type = "Destination"
         THEN it.items[1]
    ELSE OtherItem

IsNode(k) == NodeAt(k).type = "Destination"

\* the title and the page of the bookmark can both be resolved
Resolvable(k) ==
    /\ IsNode(k)
    /\ ~(NodeAt(k).title.kind = "indirect" /\ NodeAt(k).title.target = "raise")
    /\ NodeAt(k).page.res = "page"

IsSortedByPage(s) == \A j, k \in 1..Len(s) : j < k => s[j][2] <= s[k][2]

\* C7: the sequence extract_potential_chapters returns is sorted ascending by
\* start page, every start page lies in 1..total_pages, and the start pages
\* are exactly the resolved 0-based page indices plus one: page p starts as
\* many returned chapters as there are resolvable bookmarks at index p - 1.
C7_SortedOneBased ==
    pc = "walked" =>
        /\ IsSortedByPage(potential_chapters)
        /\ \A k \in 1..Len(potential_chapters) :
               potential_chapters[k][2] \in 1..total_pages
        /\ \A p \in 1..total_pages :
               Cardinality({k \in 1..Len(potential_chapters) : potential_chapters[k][2] = p})
                 = Cardinality({k \in 1..Len(outline) :
                                   Resolvable(k) /\ NodeAt(k).page.index = p - 1})

\* an outline whose tree order is not the page order has been walked
C7_Witness ==
    /\ pc = "walked"
    /\ Len(potential_chapters) >= 2
    /\ \E j, k \in 1..Len(outline) :
          /\ j < k /\ Resolvable(j) /\ Resolvable(k)
          /\ NodeAt(j).page.index > NodeAt(k).page.index

WarnedAt(k) ==
    \E m \in 1..Len(log) :
        log[m].level = "warning" /\ log[m].at = k
        /\ log[m].msg \in {"bookmark", "nested bookmark"}

\* C9: extract_potential_chapters never fails and degrades per bookmark: a
\* bookmark whose title or target page cannot be resolved is dropped with a
\* warning, and every resolvable bookmark is in the returned sequence.
C9_DroppedWithWarning ==
    (pc = "walked" /\ outline_ok) =>
        /\ \A k \in 1..Len(outline) : (IsNode(k) /\ ~Resolvable(k)) => WarnedAt(k)
        /\ Len(potential_chapters) = Cardinality({k \in 1..Len(outline) : Resolvable(k)})

\* What the walker does do: a bookmark is warned about exactly when resolving
\* it raised, a bookmark whose page lookup found no page is dropped without a
\* word, and every resolvable bookmark is returned.
WalkerDegradesPerNode ==
    (pc = "walked" /\ outline_ok) =>
        /\ \A k \in 1..Len(outline) :
              WarnedAt(k) <=>
                 /\ IsNode(k)
                 /\ \/ (NodeAt(k).title.kind = "indirect" /\ NodeAt(k).title.target = "raise")
                    \/ NodeAt(k).page.res = "raise"
        /\ Len(potential_chapters) = Cardinality({k \in 1..Len(outline) : Resolvable(k)})

----------------------------------------------------------------------------
(* Properties of the inferred ranges (checked under Spec) *)

StartOf(r) == r.Start_Page.v
EndOf(r) == r.End_Page.v

\* C3: for a non-empty sorted candidate sequence, every inferred range starts
\* at its candidate's page and has endPage >= startPage; a range that is not
\* the last ends before the next one starts (endPage <= next startPage - 1)
\* unless the next candidate is on the same page, and then it is the single
\* page (p, p); the last range ends at total_pages.
C3_InferredRanges ==
    (pc = "table" /\ potential_chapters # <<>>) =>
        LET n == Len(initial_data) IN
        /\ n = Len(potential_chapters)
        /\ \A k \in 1..n :
              /\ StartOf(initial_data[k]) = potential_chapters[k][2]
              /\ EndOf(initial_data[k]) >= StartOf(initial_data[k])
        /\ \A k \in 1..(n - 1) :
              \/ EndOf(initial_data[k]) <= StartOf(initial_data[k + 1]) - 1
              \/ /\ StartOf(initial_data[k + 1]) = StartOf(initial_data[k])
                 /\ EndOf(initial_data[k]) = StartOf(initial_data[k])
        /\ EndOf(initial_data[n]) = total_pages

\* a table has been built from two bookmarks on the same page
C3_Witness ==
    /\ pc = "table"
    /\ \E k \in 1..(Len(initial_data) - 1) :
          /\ potential_chapters[k][2] = potential_chapters[k + 1][2]
          /\ EndOf(initial_data[k]) = StartOf(initial_data[k])

\* the number of inferred ranges page p lies in
Cover(p) ==
    Cardinality({k \in 1..Len(initial_data) :
                    StartOf(initial_data[k]) <= p /\ p <= EndOf(initial_data[k])})

\* the number of candidates that start on page p
StartsOn(p) ==
    Cardinality({k \in 1..Len(potential_chapters) : potential_chapters[k][2] = p})

\* C4 as stated: for a non-empty sorted candidate sequence, every page in
\* 1..total_pages lies in exactly one inferred range.
C4_ExactlyOneRange ==
    (pc = "table" /\ potential_chapters # <<>>) =>
        \A p \in 1..total_pages : Cover(p) = 1

\* C4 as amended: a page before the first candidate's start page lies in no
\* inferred range; every page from there to total_pages lies in at least one,
\* and in exactly one unless several candidates start on it, in which case it
\* lies in one range per such candidate.
C4_CoveredFromFirstStart ==
    (pc = "table" /\ potential_chapters # <<>>) =>
        \A p \in 1..total_pages :
            IF p < potential_chapters[1][2] THEN Cover(p) = 0
            ELSE IF StartsOn(p) > 1 THEN Cover(p) = StartsOn(p)
            ELSE Cover(p) = 1

\* a table has been built from bookmarks that start after page 1, with two of
\* them on the same page and a later one after them
C4_Witness ==
    /\ pc = "table"
    /\ Len(potential_chapters) >= 3
    /\ potential_chapters[1][2] > 1
    /\ potential_chapters[1][2] = potential_chapters[2][2]
    /\ potential_chapters[3][2] > potential_chapters[2][2]
    /\ Cover(1) = 0
    /\ Cover(potential_chapters[1][2]) = 2

----------------------------------------------------------------------------
(* Properties of split_pdf (checked under SpecSplit) *)

\* positions of chapter_definitions, 0-based as in the code
Positions == 0..(Len(chapter_definitions) - 1)

DefAt(j) == chapter_definitions[j + 1]

\* the definition at position j has integer pages with
\* 1 <= startPage <= endPage <= total_pages
ValidDef(j) ==
    /\ DefAt(j).Start_Page.int /\ DefAt(j).End_Page.int
    /\ 1 <= StartOf(DefAt(j))
    /\ StartOf(DefAt(j)) <= EndOf(DefAt(j))
    /\ EndOf(DefAt(j)) <= total_pages

\* the output documents written for the definition at position j
OutputsAt(j) == {k \in 1..Len(output_files) : output_files[k].at = j}

\* what split_pdf reported about the definition at position j
ReportsAt(j) ==
    {m \in 1..Len(log) :
        /\ log[m].at = j
        /\ log[m].msg \in {"not integers", "out of range", "start after end",
                           "failed to create"}}

\* creating the document for the definition at position j raised
FailedAt(j) == \E m \in ReportsAt(j) : log[m].msg = "failed to create"

\* C1: split_pdf never produces an output document for a definition with
\* startPage > endPage, with a page outside 1..total_pages or with a page
\* that is no integer; the documents returned are in the order of their
\* definitions; and every valid definition has exactly one output document
\* (none only when creating that document raised, which the code catches
\* and reports for that chapter).
C1_OnePerValidInOrder ==
    /\ pc \in {"split", "done"} =>
         /\ \A k \in 1..Len(output_files) :
               output_files[k].at \in Positions /\ ValidDef(output_files[k].at)
         /\ \A a, b \in 1..Len(output_files) :
               a < b => output_files[a].at < output_files[b].at
    /\ pc = "done" =>
         \A j \in Positions :
             ValidDef(j) => Cardinality(OutputsAt(j)) = (IF FailedAt(j) THEN 0 ELSE 1)

\* split_pdf has returned after a definition with start after end and, later
\* in the list, a valid definition on earlier pages that got its document
C1_Witness ==
    /\ pc = "done"
    /\ \E j, k \in Positions :
          /\ j < k
          /\ DefAt(j).Start_Page.int /\ DefAt(j).End_Page.int
          /\ StartOf(DefAt(j)) > EndOf(DefAt(j))
          /\ OutputsAt(j) = {}
          /\ ValidDef(k) /\ EndOf(DefAt(k)) < StartOf(DefAt(j))
          /\ Cardinality(OutputsAt(k)) = 1

RECURSIVE Flatten(_)
\* the concatenation of a sequence of sequences
Flatten(ss) == IF ss = <<>> THEN <<>> ELSE Head(ss) \o Flatten(Tail(ss))

\* the definitions are contiguous, gap-free and non-overlapping and cover
\* 1..total_pages in order
CoversInOrder ==
    LET n == Len(chapter_definitions) IN
    /\ n >= 1
    /\ \A k \in 1..n : chapter_definitions[k].Start_Page.int /\ chapter_definitions[k].End_Page.int
    /\ StartOf(chapter_definitions[1]) = 1
    /\ EndOf(chapter_definitions[n]) = total_pages
    /\ \A k \in 1..n : StartOf(chapter_definitions[k]) <= EndOf(chapter_definitions[k])
    /\ \A k \in 1..(n - 1) :
          StartOf(chapter_definitions[k + 1]) = EndOf(chapter_definitions[k]) + 1

\* C2: every output document holds the pages startPage..endPage of its
\* definition, inclusive and in the original order; so for definitions that
\* are contiguous, gap-free and non-overlapping and cover 1..total_pages in
\* order (total_pages >= 1), the pages of the returned documents,
\* concatenated in output order, are the source pages 1..total_pages (every
\* chapter having been created).
C2_RoundTrip ==
    /\ pc \in {"split", "done"} =>
         \A k \in 1..Len(output_files) :
             LET r == DefAt(output_files[k].at) IN
             output_files[k].pages =
                 [m \in 1..(EndOf(r) - StartOf(r) + 1) |-> StartOf(r) + m - 1]
    /\ (pc = "done" /\ total_pages >= 1 /\ CoversInOrder
            /\ \A j \in Positions : ~FailedAt(j)) =>
         Flatten([k \in 1..Len(output_files) |-> output_files[k].pages])
            = [p \in 1..total_pages |-> p]

\* a document of three or more pages has been split by two definitions that
\* cover it in order, the first of more than one page
C2_Witness ==
    /\ pc = "done"
    /\ total_pages >= 3
    /\ CoversInOrder
    /\ Len(chapter_definitions) = 2
    /\ EndOf(chapter_definitions[1]) >= 2
    /\ Len(output_files) = 2

\* C6: two output documents of one split_pdf call, written for the
\* definitions at different positions, never have the same filename,
\* whatever the names are and however long the list is.
C6_UniqueFilenames ==
    pc \in {"split", "done"} =>
        \A a, b \in 1..Len(output_files) :
            a # b => output_files[a].filename # output_files[b].filename

\* documents have been written for the definitions at positions 0 and 100,
\* whose different names sanitize to the same string, with skipped rows between
C6_Witness ==
    /\ pc = "done"
    /\ Len(chapter_definitions) > 100
    /\ OutputsAt(0) # {} /\ OutputsAt(100) # {}
    /\ ~ValidDef(1)
    /\ DefAt(0).has_name /\ DefAt(100).has_name
    /\ DefAt(0).Chapter_Name # DefAt(100).Chapter_Name
    /\ \E a \in OutputsAt(0), b \in OutputsAt(100) :
          SubSeq(output_files[a].filename, 4, Len(output_files[a].filename))
            = SubSeq(output_files[b].filename, 5, Len(output_files[b].filename))

\* C8: when split_pdf returns, every definition of the list has been
\* processed, each on its own: a definition with a non-integer page, an
\* out-of-range page or start after end has exactly one warning, with that
\* reason, and no document; a valid definition has either its document and
\* no report, or, when creating it raised, one error report and no document.
C8_PerChapterFailure ==
    pc = "done" =>
        \A j \in Positions :
            LET r == DefAt(j)
                expected ==
                    IF ~(r.Start_Page.int /\ r.End_Page.int) THEN "not integers"
                    ELSE IF ~(StartOf(r) \in 1..total_pages /\ EndOf(r) \in 1..total_pages)
                         THEN "out of range"
                    ELSE IF StartOf(r) > EndOf(r) THEN "start after end"
                    ELSE "failed to create"
            IN
            /\ Cardinality(ReportsAt(j)) + Cardinality(OutputsAt(j)) = 1
            /\ \A m \in ReportsAt(j) :
                  /\ log[m].msg = expected
                  /\ log[m].level = (IF ValidDef(j) THEN "error" ELSE "warning")
            /\ ~ValidDef(j) => OutputsAt(j) = {}

\* split_pdf has returned after skipping a row, then failing to create a
\* chapter, then creating a later one
C8_Witness ==
    /\ pc = "done"
    /\ \E a, b, c \in Positions :
          /\ a < b /\ b < c
          /\ ~ValidDef(a) /\ ReportsAt(a) # {}
          /\ ValidDef(b) /\ FailedAt(b) /\ OutputsAt(b) = {}
          /\ ValidDef(c) /\ OutputsAt(c) # {}

----------------------------------------------------------------------------
(* The table handed to split_pdf as it is shown (checked under SpecSession) *)

\* every row of table t has a name and integer pages with
\* 1 <= startPage <= endPage <= total_pages
AllRowsValid(t) ==
    \A k \in 1..Len(t) :
        LET r == t[k] IN
        /\ r.has_name /\ r.Start_Page.int /\ r.End_Page.int
        /\ 1 <= StartOf(r) /\ StartOf(r) <= EndOf(r) /\ EndOf(r) <= total_pages

\* split_pdf warned about no row and wrote one document per row (none only
\* for a row whose creation raised)
NoRowRejected ==
    /\ pc \in {"split", "done"} =>
         \A m \in 1..Len(log) : log[m].level = "warning" =>
             log[m].msg \in {"bookmark", "nested bookmark"}
    /\ pc = "done" =>
         \A j \in Positions :
             Cardinality(OutputsAt(j)) = (IF FailedAt(j) THEN 0 ELSE 1)

\* C10: for a document of at least one page, every row of the table the
\* application shows for it has integer pages with
\* 1 <= startPage <= endPage <= total_pages (the single row "Chapter 1", 1,
\* total_pages when the walker returned nothing), so split_pdf on the
\* unedited table skips no row and writes one document per row (none only
\* for a row whose creation raised).
C10_TableAccepted ==
    total_pages >= 1 =>
        /\ pc = "table" =>
             /\ chapter_data # <<>>
             /\ AllRowsValid(chapter_data)
             /\ potential_chapters = <<>> =>
                   chapter_data = <<Row(<<"C", "h", "a", "p", "t", "e", "r", " ", "1">>,
                                        IntCell(1), IntCell(total_pages))>>
        /\ pc \in {"split", "done"} => chapter_definitions = chapter_data
        /\ NoRowRejected

\* What does hold: in a run that builds the table (the session had none, or
\* one built for a file of another name), the table is accepted as C10 says.
TableAcceptedWhenBuilt ==
    (total_pages >= 1 /\ initial_data # <<>>) =>
        /\ pc \in {"table", "split", "done"} =>
             /\ chapter_data = initial_data
             /\ AllRowsValid(initial_data)
             /\ potential_chapters = <<>> =>
                   initial_data = <<Row(<<"C", "h", "a", "p", "t", "e", "r", " ", "1">>,
                                        IntCell(1), IntCell(total_pages))>>
        /\ pc \in {"split", "done"} => chapter_definitions = initial_data
        /\ NoRowRejected

\* the table of an earlier document of the same name has been handed to
\* split_pdf for a shorter document, and a row of it was skipped
StaleTableSplit ==
    /\ pc = "done"
    /\ uploads = 2
    /\ total_pages >= 1
    /\ initial_data = <<>>
    /\ \E j \in Positions : ~ValidDef(j) /\ OutputsAt(j) = {}

====
